---- MODULE Spec2Model ----
(***************************************************************************)
(* A model of cms/api.py: the procedural API that creates pages, titles    *)
(* and plugins, publishes pages and copies plugins between languages.      *)
(*                                                                         *)
(* The relational store is modelled by three tables (pages, titles,        *)
(* plugins) kept as sequences whose index is the primary key; 0 stands for *)
(* None / NULL.  Text is a sequence of one-character strings so that       *)
(* slugify and the '%s-%s' suffix formatting are computed, not assumed.    *)
(***************************************************************************)
EXTENDS Integers, Sequences, FiniteSets, TLC

\* ------------------------------------------------------------------ bounds
MaxPages == 3
MaxTitles == 4
MaxGrants == 2
MaxPublishPages == 2
MaxBulkPages == 2
MaxPlugins == 3
MaxRootPlugins == 4
MaxRaceCalls == 3
MaxReversePages == 2
MaxActingPages == 2
MaxFailFastPages == 1
MaxCopyPages == 1
MaxCopyPlugins == 3
MaxCopyRows == 5

\* --------------------------------------------------------------- constants
None == 0
Unset == "<unset>"
NoUser == "<None>"
Languages == {"en", "de"}
Sites == {1, 2}
CurrentSite == 1
Users == {"alice", "bob"}
Positions == {"last-child", "first-child", "left", "right"}
TEMPLATE_INHERITANCE_MAGIC == "INHERIT"
Templates == {"page.html", "gone.html"}
LoadableTemplates == {"page.html"}
Menus == {"CMSMenu"}
NotASite == -1
NotAPage == -1
Visibilities == {"all", "users", "anonymous"}

VARIABLES
    pages,            \* Page table: Seq of page rows, pk = index
    titles,           \* Title table: set of title rows
    plugins,          \* CMSPlugin table: Seq of plugin rows, pk = index
    tree,             \* plugin pks in materialised-path order
    permissions,      \* PagePermission rows
    thread_user,      \* _thread_locals.user
    reversion,        \* is_installed('reversion')
    activated,        \* language set by django's activate()
    last,             \* outcome of the last API call
    calls,            \* the add_plugin calls in progress (stepwise execution)
    bulk              \* the publish_pages generator being iterated

vars == <<pages, titles, plugins, tree, permissions, thread_user, reversion,
          activated, last, calls, bulk>>

\* ------------------------------------------------------------------- text
\* Characters of [A-Za-z0-9_], of \s and upper-case letters, as far as the
\* inputs below use them.
WordChars == {"a", "b", "A", "B", "_", "0", "1", "2", "3", "4", "5", "6", "7", "8", "9"}
SpaceChars == {" "}
LowerOf == [c \in {"A", "B"} |-> IF c = "A" THEN "a" ELSE "b"]

Lower(s) == [i \in 1..Len(s) |-> IF s[i] \in DOMAIN LowerOf THEN LowerOf[s[i]] ELSE s[i]]

RECURSIVE LStrip(_)
LStrip(s) ==
    IF s # <<>> /\ Head(s) \in SpaceChars THEN LStrip(Tail(s)) ELSE s

RECURSIVE RStrip(_)
RStrip(s) ==
    IF s # <<>> /\ s[Len(s)] \in SpaceChars THEN RStrip(SubSeq(s, 1, Len(s) - 1)) ELSE s

Strip(s) == RStrip(LStrip(s))

\* re.sub('[-\s]+', '-', value)
RECURSIVE CollapseSeparators(_)
CollapseSeparators(s) ==
    IF s = <<>> THEN <<>>
    ELSE IF Head(s) \in SpaceChars \cup {"-"}
         THEN IF Len(s) > 1 /\ s[2] \in SpaceChars \cup {"-"}
              THEN CollapseSeparators(Tail(s))
              ELSE <<"-">> \o CollapseSeparators(Tail(s))
         ELSE <<Head(s)>> \o CollapseSeparators(Tail(s))

\* django.template.defaultfilters.slugify:
\*   value = re.sub('[^\w\s-]', '', value).strip().lower()
\*   return re.sub('[-\s]+', '-', value)
slugify(source) ==
    CollapseSeparators(Lower(Strip(SelectSeq(source, LAMBDA c : c \in WordChars \cup SpaceChars \cup {"-"}))))

Digit == [d \in 0..9 |-> CASE d = 0 -> "0" [] d = 1 -> "1" [] d = 2 -> "2" [] d = 3 -> "3"
                           [] d = 4 -> "4" [] d = 5 -> "5" [] d = 6 -> "6" [] d = 7 -> "7"
                           [] d = 8 -> "8" [] d = 9 -> "9"]

\* '%s' % i for a non-negative int
RECURSIVE str(_)
str(i) == IF i < 10 THEN <<Digit[i]>> ELSE str(i \div 10) \o <<Digit[i % 10]>>

\* '%s-%s' % (baseslug, i)
Suffixed(baseslug, i) == baseslug \o <<"-">> \o str(i)

\* --------------------------------------------------------------- the store
PageIds == 1..Len(pages)
Drafts == {p \in PageIds : pages[p].publisher_is_draft}

\* Title.objects.filter(language=language, page__parent=parent) /
\* Title.objects.filter(language=language, page__parent__isnull=True)
used_slugs(pgs, tts, parent, language) ==
    {t.slug : t \in {u \in tts : u.language = language /\ pgs[u.page].parent_id = parent}}

\* the while loop of generate_valid_slug
RECURSIVE first_free(_, _, _)
first_free(baseslug, i, used) ==
    IF Suffixed(baseslug, i) \in used THEN first_free(baseslug, i + 1, used)
    ELSE Suffixed(baseslug, i)

generate_valid_slug_from_2(pgs, tts, source, parent, language) ==
    LET used == used_slugs(pgs, tts, parent, language)
        baseslug == slugify(source)
    IN  IF used # {} /\ baseslug \in used THEN first_free(baseslug, 2, used) ELSE baseslug

generate_valid_slug(pgs, tts, source, parent, language) ==
    LET used == used_slugs(pgs, tts, parent, language)
        baseslug == slugify(source)
    IN  IF used # {} /\ baseslug \in used THEN first_free(baseslug, 1, used) ELSE baseslug

\* get_language_list(site): the languages the settings enable for a site
get_language_list(site) == IF site = 1 THEN {"en", "de"} ELSE {"en"}

\* apphook_pool.apps: registered application name -> its app_name (None if it
\* declares none)
RegisteredApps == {"SampleApp", "PlainApp"}
app_name_of == [n \in RegisteredApps |-> IF n = "SampleApp" THEN "sample" ELSE ""]
ApphookForms == {"string", "instance", "class"}
NoApphook == [form |-> "none", app |-> ""]

\* ------------------------------------------------------------ _verify_apphook
\* apphook is a record [form, app]; the result is [error, name].
verify_apphook(apphook, namespace) ==
    IF apphook.form = "instance"
    THEN IF apphook.app \notin RegisteredApps
         THEN [error |-> "AssertionError", name |-> ""]
         ELSE IF app_name_of[apphook.app] # "" /\ namespace = ""
              THEN [error |-> "ValidationError", name |-> ""]
              ELSE [error |-> "none", name |-> apphook.app]
    ELSE IF apphook.form = "class"
    THEN [error |-> "none", name |-> apphook.app]
    ELSE IF apphook.form = "string"
    THEN IF apphook.app \notin RegisteredApps
         THEN [error |-> "AssertionError", name |-> ""]
         ELSE IF app_name_of[apphook.app] # "" /\ namespace = ""
              THEN [error |-> "ValidationError", name |-> ""]
              ELSE [error |-> "none", name |-> apphook.app]
    ELSE [error |-> "TypeError", name |-> ""]

\* _verify_revision_support
revision_supported == reversion

\* ------------------------------------------------------------ page.publish
\* The tree's publish operation (cms.models.pagemodel.Page.publish): with
\* ok it marks the draft's title published and creates or refreshes the
\* public counterpart of the page and of the title; without ok it reports
\* failure by returning False and changes nothing.  actor is the ambient
\* current user the persistence layer attributes the change to.
public_parent(pgs, p) ==
    IF pgs[p].parent_id = None THEN None ELSE pgs[pgs[p].parent_id].publisher_public

attributed(actor) == IF actor \in {Unset, NoUser} THEN "script" ELSE actor

publish_pages_table(pgs, p, actor) ==
    IF pgs[p].publisher_public # None
    THEN [pgs EXCEPT ![p].changed_by = attributed(actor),
                     ![pgs[p].publisher_public].changed_by = attributed(actor)]
    ELSE Append([pgs EXCEPT ![p].changed_by = attributed(actor),
                            ![p].publisher_public = Len(pgs) + 1],
                [pgs[p] EXCEPT !.publisher_is_draft = FALSE,
                               !.publisher_public = p,
                               !.parent_id = public_parent(pgs, p),
                               !.changed_by = attributed(actor)])

publish_titles_table(pgs, tts, p, language) ==
    LET pub == IF pgs[p].publisher_public # None THEN pgs[p].publisher_public ELSE Len(pgs) + 1
        mine == {t \in tts : t.page = p /\ t.language = language}
    IN  (tts \ {t \in tts : t.language = language /\ t.page \in {p, pub}})
        \cup {[t EXCEPT !.published = TRUE] : t \in mine}
        \cup {[t EXCEPT !.published = TRUE, !.page = pub] : t \in mine}

create_title_outcome_revision_last(pgs, tts, language, title, page, slug, parent, with_revision) ==
    IF language \notin get_language_list(pgs[page].site)
    THEN [error |-> "AssertionError", titles |-> tts]
    ELSE IF \E t \in tts : t.page = page /\ t.language = language
    THEN [error |-> "IntegrityError", titles |-> tts]
    ELSE [error |-> IF with_revision /\ ~revision_supported
                    THEN "ImproperlyConfigured" ELSE "none",
          titles |-> tts \cup {[page |-> page, language |-> language,
                                slug |-> IF slug = <<>>
                                         THEN generate_valid_slug(pgs, tts, title, parent, language)
                                         ELSE slug,
                                published |-> FALSE]}]

\* ------------------------------------------------------------ create_title
\* The outcome of create_title on the tables (pgs, tts): [error, titles].
\* An empty slug stands for None / '' (not slug).
create_title_outcome(pgs, tts, language, title, page, slug, parent, with_revision) ==
    IF language \notin get_language_list(pgs[page].site)
    THEN [error |-> "AssertionError", titles |-> tts]
    ELSE IF with_revision /\ ~revision_supported
    THEN [error |-> "ImproperlyConfigured", titles |-> tts]
    ELSE IF \E t \in tts : t.page = page /\ t.language = language
    THEN [error |-> "IntegrityError", titles |-> tts]
    ELSE [error |-> "none",
          titles |-> tts \cup {[page |-> page, language |-> language,
                                slug |-> IF slug = <<>>
                                         THEN generate_valid_slug(pgs, tts, title, parent, language)
                                         ELSE slug,
                                published |-> FALSE]}]

\* What a call left behind for its caller: the exception raised ("none" if it
\* returned), the page returned, the number of page.publish calls it made,
\* the value it put in _thread_locals.user while it ran (Unset if it never
\* set it), for publish_pages the pairs it yielded (for add_plugin the
\* position and target it was called with) and, for copy_plugins_to_language,
\* the number it returned.
Outcome(op, error, page, n) ==
    [op |-> op, error |-> error, page |-> page, publish_calls |-> n,
     actor |-> Unset, output |-> <<>>, copied |-> 0]

create_title(a) ==
    /\ a.page \in PageIds
    /\ a.parent \in PageIds \cup {None}
    /\ LET out == create_title_outcome(pages, titles, a.language, a.title, a.page, a.slug,
                                       a.parent, a.with_revision)
       IN  /\ titles' = out.titles
           /\ last' = Outcome("create_title", out.error, None, 0)
    /\ UNCHANGED <<pages, plugins, tree, permissions, thread_user, reversion, activated, calls, bulk>>

\* ------------------------------------------------------------- create_page
\* The first error the validation of lines 171-229 raises, "none" if none.
\* A date is "" (None), "date" or a value of another type; a parent that is
\* no Page is refused by the query of line 192 or by the assert of line 196.
create_page_validation(a, site) ==
    IF a.with_revision /\ ~revision_supported THEN "ImproperlyConfigured"
    ELSE IF a.template # TEMPLATE_INHERITANCE_MAGIC /\ a.template \notin Templates
    THEN "AssertionError"
    ELSE IF a.template # TEMPLATE_INHERITANCE_MAGIC /\ a.template \notin LoadableTemplates
    THEN "TemplateDoesNotExist"
    ELSE IF a.site # None /\ a.site \notin Sites THEN "AssertionError"
    ELSE IF a.language \notin get_language_list(site) THEN "AssertionError"
    ELSE IF a.slug = <<>> /\ a.parent = NotAPage THEN "ValueError"
    ELSE IF a.parent = NotAPage THEN "AssertionError"
    ELSE IF a.publication_date \notin {"", "date"} THEN "AssertionError"
    ELSE IF a.publication_end_date \notin {"", "date"} THEN "AssertionError"
    ELSE IF a.navigation_extenders # "" /\ a.navigation_extenders \notin Menus
    THEN "AssertionError"
    ELSE IF a.limit_visibility_in_menu \notin Visibilities THEN "AssertionError"
    ELSE IF a.position \notin Positions THEN "AssertionError"
    ELSE IF a.apphook # NoApphook THEN verify_apphook(a.apphook, a.apphook_namespace).error
    ELSE "none"

new_page_parent_id(a) ==
    IF a.parent # None
    THEN IF a.position \in {"last-child", "first-child"}
         THEN a.parent
         ELSE pages[a.parent].parent_id
    ELSE None

reverse_id_in_use_any_site(reverse_id, site) ==
    \E p \in Drafts : pages[p].reverse_id = reverse_id

reverse_id_in_use(reverse_id, site) ==
    \E p \in Drafts : pages[p].reverse_id = reverse_id /\ pages[p].site = site

create_page(a, publish_ok) ==
    /\ a.parent \in PageIds \cup {None, NotAPage}
    /\ LET site == IF a.site = None THEN CurrentSite ELSE a.site
           slug == IF a.slug = <<>>
                   THEN generate_valid_slug(pages, titles, a.title, a.parent, a.language)
                   ELSE a.slug
           invalid == create_page_validation(a, site)
           is_user == a.created_by \in Users
           stashed == IF is_user THEN a.created_by ELSE NoUser
           page == [parent_id |-> new_page_parent_id(a),
                    site |-> site,
                    reverse_id |-> a.reverse_id,
                    application_urls |-> IF a.apphook # NoApphook
                                         THEN verify_apphook(a.apphook, a.apphook_namespace).name
                                         ELSE "",
                    application_namespace |-> a.apphook_namespace,
                    created_by |-> a.created_by,
                    changed_by |-> a.created_by,
                    publisher_is_draft |-> TRUE,
                    publisher_public |-> None]
           pk == Len(pages) + 1
           pages1 == Append(pages, page)
           titled == create_title_outcome(pages1, titles, a.language, a.title, pk, slug,
                                          None, FALSE)
           published == a.published /\ publish_ok
       IN  IF invalid # "none"
           THEN /\ last' = Outcome("create_page", invalid, None, 0)
                /\ UNCHANGED <<pages, titles, thread_user>>
           ELSE IF a.reverse_id # "" /\ reverse_id_in_use(a.reverse_id, site)
           THEN /\ thread_user' = stashed
                /\ last' = [Outcome("create_page", "FieldError", None, 0) EXCEPT !.actor = stashed]
                /\ UNCHANGED <<pages, titles>>
           ELSE /\ pages' = IF published THEN publish_pages_table(pages1, pk, stashed) ELSE pages1
                /\ titles' = IF published
                             THEN publish_titles_table(pages1, titled.titles, pk, a.language)
                             ELSE titled.titles
                /\ thread_user' = Unset
                /\ last' = [Outcome("create_page", "none", pk, IF a.published THEN 1 ELSE 0)
                              EXCEPT !.actor = stashed]
    /\ UNCHANGED <<plugins, tree, permissions, reversion, activated, calls, bulk>>

\* ------------------------------------------------------------------ inputs
DefaultPageArgs ==
    [title |-> <<"A">>, template |-> TEMPLATE_INHERITANCE_MAGIC, language |-> "en",
     slug |-> <<>>, apphook |-> NoApphook, apphook_namespace |-> "", created_by |-> "python-api",
     parent |-> None, published |-> FALSE, reverse_id |-> "", site |-> None,
     position |-> "last-child", with_revision |-> FALSE, limit_visibility_in_menu |-> "all",
     publication_date |-> "", publication_end_date |-> "", navigation_extenders |-> ""]

BulkIdle ==
    [active |-> FALSE, include_unpublished |-> FALSE, language |-> "", site |-> None,
     queue |-> <<>>, output |-> <<>>, calls |-> {}, output_language |-> ""]

InitStore ==
    /\ pages = <<>>
    /\ titles = {}
    /\ plugins = <<>>
    /\ tree = <<>>
    /\ permissions = {}
    /\ thread_user = Unset
    /\ activated = ""
    /\ last = Outcome("init", "none", None, 0)
    /\ calls = <<>>
    /\ bulk = BulkIdle

\* ------------------------------------------------- pages, titles and slugs
SlugSources == {<<"A">>, <<"a", " ", "1">>}
ExplicitSlugs == {<<>>, <<"a">>}

\* the parents passed in: none, or the first page
SlugParents == {None} \cup {p \in PageIds : p = 1}

SlugPageArgs ==
    {[DefaultPageArgs EXCEPT !.title = t, !.slug = s, !.language = l, !.parent = p,
                             !.position = pos] :
        t \in SlugSources, s \in ExplicitSlugs, l \in Languages,
        p \in SlugParents, pos \in Positions}

SlugTitleArgs ==
    {[language |-> l, title |-> t, page |-> pg, slug |-> s, parent |-> p,
      with_revision |-> FALSE] :
        l \in Languages, t \in SlugSources, pg \in PageIds, s \in ExplicitSlugs,
        p \in SlugParents}

SlugCreatePage ==
    /\ Cardinality(Drafts) < MaxPages
    /\ \E a \in SlugPageArgs : create_page(a, TRUE)

SlugCreateTitle ==
    /\ Cardinality(titles) < MaxTitles
    /\ \E a \in SlugTitleArgs : create_title(a)

InitSlug == InitStore /\ reversion = FALSE

NextSlug == SlugCreatePage \/ SlugCreateTitle

SpecSlug == InitSlug /\ [][NextSlug]_vars

\* C1: generate_valid_slug(source, parent, language) returns a slug that no
\* title of that language under that parent (root level for no parent) uses:
\* the slugified base if it is free, otherwise the base with the smallest
\* free suffix -1, -2, ...; with "A" for "news", the calls made with no
\* sibling, with sibling a, and with siblings a and a-1 give a, a-1, a-2.
SiblingSlugs(parent, language) ==
    {t.slug : t \in {u \in titles : u.language = language /\ pages[u.page].parent_id = parent}}

GeneratedSlugIsSmallestFree ==
    \A source \in SlugSources, parent \in PageIds \cup {None}, language \in Languages :
        LET sibs == SiblingSlugs(parent, language)
            base == slugify(source)
            slug == generate_valid_slug(pages, titles, source, parent, language)
        IN  /\ slug \notin sibs
            /\ IF base \notin sibs
               THEN slug = base
               ELSE \E i \in 1..Cardinality(sibs) :
                       /\ slug = base \o <<"-">> \o str(i)
                       /\ \A j \in 1..(i - 1) : (base \o <<"-">> \o str(j)) \in sibs
            /\ source = <<"A">> =>
                  /\ sibs = {} => slug = <<"a">>
                  /\ sibs = {<<"a">>} => slug = <<"a", "-", "1">>
                  /\ sibs = {<<"a">>, <<"a", "-", "1">>} => slug = <<"a", "-", "2">>

\* three siblings of one language hold a, a-1 and a-2, the last one stored by
\* a create_page call that generated its slug
ThreeGeneratedSiblings ==
    /\ last.op = "create_page" /\ last.error = "none"
    /\ \E parent \in PageIds \cup {None}, language \in Languages :
          /\ {<<"a">>, <<"a", "-", "1">>, <<"a", "-", "2">>} \subseteq SiblingSlugs(parent, language)
          /\ \E t \in titles : /\ t.page = last.page /\ t.language = language
                               /\ t.slug = <<"a", "-", "2">>
                               /\ pages[t.page].parent_id = parent

\* C8: after any sequence of create_page and create_title calls no two pages
\* sharing a parent have titles of the same language with the same slug.
SiblingSlugsUnique ==
    \A t1 \in titles, t2 \in titles :
        (/\ t1.page # t2.page
         /\ t1.language = t2.language
         /\ pages[t1.page].parent_id = pages[t2.page].parent_id)
        => t1.slug # t2.slug

\* generated slugs only: neither call passes a slug
AutoSlugCreatePage ==
    /\ Cardinality(Drafts) < MaxPages
    /\ \E a \in {x \in SlugPageArgs : x.slug = <<>>} : create_page(a, TRUE)

AutoSlugCreateTitle ==
    /\ Cardinality(titles) < MaxTitles
    /\ \E a \in {x \in SlugTitleArgs : x.slug = <<>>} : create_title(a)

NextAutoSlug == AutoSlugCreatePage \/ AutoSlugCreateTitle

SpecAutoSlug == InitSlug /\ [][NextAutoSlug]_vars

\* ------------------------------------------------- reverse ids and sites
ReverseIds == {"", "home"}

ReversePageArgs ==
    {[DefaultPageArgs EXCEPT !.site = st, !.reverse_id = r, !.published = pb,
                             !.created_by = cb] :
        st \in Sites \cup {None}, r \in ReverseIds, pb \in BOOLEAN,
        cb \in {"python-api", "alice"}}

\* calls that are refused are made on a full store too
ReverseCreatePage ==
    \E a \in ReversePageArgs, ok \in BOOLEAN :
        /\ create_page(a, ok)
        /\ Cardinality(Drafts') <= MaxReversePages

NextReverse == ReverseCreatePage

SpecReverse == InitSlug /\ [][NextReverse]_vars

SiteOf(a) == IF a.site = None THEN CurrentSite ELSE a.site

\* C4: create_page with a non-empty reverse_id that a draft of the same site
\* already uses fails with FieldError and creates no page; when only pages of
\* other sites use it the call succeeds; so no two drafts of one site ever
\* share a non-empty reverse_id.
ReverseIdDraftsUnique ==
    \A p \in Drafts, q \in Drafts :
        (p # q /\ pages[p].site = pages[q].site /\ pages[p].reverse_id # "")
        => pages[p].reverse_id # pages[q].reverse_id

ReverseIdConflictStep ==
    \A a \in ReversePageArgs, ok \in BOOLEAN :
        (create_page(a, ok) /\ a.reverse_id # "") =>
            IF \E p \in Drafts : pages[p].reverse_id = a.reverse_id /\ pages[p].site = SiteOf(a)
            THEN last'.error = "FieldError" /\ pages' = pages /\ titles' = titles
            ELSE /\ last'.error = "none"
                 /\ Len(pages') > Len(pages)
                 /\ pages'[last'.page].reverse_id = a.reverse_id
                 /\ pages'[last'.page].site = SiteOf(a)
                 /\ pages'[last'.page].publisher_is_draft

ReverseIdUniquePerSite == [](ReverseIdDraftsUnique) /\ [][ReverseIdConflictStep]_vars

\* a call was just refused for a conflict while two sites each hold a draft
\* with that reverse_id
ReverseIdRefusedAndShared ==
    /\ last.op = "create_page" /\ last.error = "FieldError"
    /\ \E p \in Drafts, q \in Drafts :
          /\ pages[p].site # pages[q].site
          /\ pages[p].reverse_id = "home" /\ pages[q].reverse_id = "home"

\* ---------------------------------------------------------------- apphooks
Apphooks ==
    {NoApphook} \cup [form : ApphookForms, app : RegisteredApps \cup {"GhostApp"}]
           \cup {[form |-> "other", app |-> ""]}

ApphookPageArgs ==
    {[DefaultPageArgs EXCEPT !.apphook = h, !.apphook_namespace = ns] :
        h \in Apphooks, ns \in {"", "ns"}}

ApphookCreatePage ==
    /\ Cardinality(Drafts) < MaxPages
    /\ \E a \in ApphookPageArgs : create_page(a, TRUE)

NextApphook == ApphookCreatePage

SpecApphook == InitSlug /\ [][NextApphook]_vars

\* C5: for each accepted form of the apphook argument (name, instance,
\* class), create_page with a registered application that declares an app
\* name fails with ValidationError and creates no page when no namespace is
\* given, and with a namespace succeeds, the page storing the normalized name.
ApphookNamespaceStep ==
    \A a \in ApphookPageArgs :
        (/\ create_page(a, TRUE)
         /\ a.apphook # NoApphook
         /\ a.apphook.form \in ApphookForms
         /\ a.apphook.app \in RegisteredApps
         /\ app_name_of[a.apphook.app] # "") =>
            IF a.apphook_namespace = ""
            THEN last'.error = "ValidationError" /\ pages' = pages /\ titles' = titles
            ELSE /\ last'.error = "none"
                 /\ pages'[last'.page].application_urls = a.apphook.app

ApphookNamespaceRequired == [][ApphookNamespaceStep]_vars

\* ------------------------------------------------------- assign_user_to_page
\* The PagePermission row of lines 466-480 (global_permission left False).
assign_user_to_page(page, user, can_publish, grant_all) ==
    /\ permissions' = permissions \cup
           {[page |-> page, user |-> user, can_publish |-> (can_publish \/ grant_all)]}
    /\ last' = Outcome("assign_user_to_page", "none", page, 0)
    /\ UNCHANGED <<pages, titles, plugins, tree, thread_user, reversion, activated, calls, bulk>>

\* page.has_publish_permission(request): a grant with can_publish on the page
\* or on one of its ancestors (ACCESS_PAGE_AND_DESCENDANTS)
RECURSIVE ancestors_and_self(_, _)
ancestors_and_self(pgs, p) ==
    IF p = None THEN {} ELSE {p} \cup ancestors_and_self(pgs, pgs[p].parent_id)

has_publish_permission(page, user) ==
    \E g \in permissions :
        g.user = user /\ g.can_publish /\ g.page \in ancestors_and_self(pages, page)

\* page.publish(language) returns True only for a language the page has a title in
can_publish_language(tts, page, language) ==
    \E t \in tts : t.page = page /\ t.language = language

\* --------------------------------------------------------------- publish_page
publish_page_check_after_publish(page, user, language, ok) ==
    /\ page \in Drafts
    /\ LET done == ok /\ can_publish_language(titles, page, language)
       IN  /\ pages' = IF done THEN publish_pages_table(pages, page, user) ELSE pages
           /\ titles' = IF done THEN publish_titles_table(pages, titles, page, language)
                        ELSE titles
           /\ thread_user' = NoUser
           /\ last' = IF ~has_publish_permission(page, user)
                      THEN [Outcome("publish_page", "PermissionDenied", None, 1)
                               EXCEPT !.actor = user]
                      ELSE [Outcome("publish_page", "none", page, 1) EXCEPT !.actor = user]
    /\ UNCHANGED <<plugins, tree, permissions, reversion, activated, calls, bulk>>

publish_page(page, user, language, ok) ==
    /\ page \in Drafts
    /\ IF ~has_publish_permission(page, user)
       THEN /\ last' = Outcome("publish_page", "PermissionDenied", None, 0)
            /\ UNCHANGED <<pages, titles, thread_user>>
       ELSE LET done == ok /\ can_publish_language(titles, page, language)
            IN  /\ pages' = IF done THEN publish_pages_table(pages, page, user) ELSE pages
                /\ titles' = IF done THEN publish_titles_table(pages, titles, page, language)
                             ELSE titles
                /\ thread_user' = NoUser
                /\ last' = [Outcome("publish_page", "none", page, 1) EXCEPT !.actor = user]
    /\ UNCHANGED <<plugins, tree, permissions, reversion, activated, calls, bulk>>

\* ------------------------------------------------- publishing a single page
PublishPageArgs == {DefaultPageArgs}

PublishCreatePage ==
    /\ Cardinality(Drafts) < MaxPublishPages
    /\ \E a \in PublishPageArgs : create_page(a, TRUE)

PublishAssignUser ==
    /\ Cardinality(permissions) < MaxGrants
    /\ \E page \in Drafts, user \in Users, can_publish \in BOOLEAN, grant_all \in BOOLEAN :
          assign_user_to_page(page, user, can_publish, grant_all)

PublishPage ==
    \E page \in Drafts, user \in Users, language \in Languages, ok \in BOOLEAN :
        publish_page(page, user, language, ok)

NextPublish == PublishCreatePage \/ PublishAssignUser \/ PublishPage

SpecPublish == InitSlug /\ [][NextPublish]_vars

\* C3: publish_page by a user without publish capability on the page raises
\* PermissionDenied and changes nothing: page.publish is not called, the
\* pages and titles (published state, public counterpart) stay as they were
\* and _thread_locals.user is not set.
HoldsPublishGrant(page, user) ==
    \E g \in permissions : /\ g.user = user /\ g.can_publish
                           /\ g.page \in ancestors_and_self(pages, page)

PublishDeniedStep ==
    \A page \in Drafts, user \in Users, language \in Languages, ok \in BOOLEAN :
        (publish_page(page, user, language, ok) /\ ~HoldsPublishGrant(page, user)) =>
            /\ last'.error = "PermissionDenied"
            /\ last'.publish_calls = 0
            /\ last'.actor = Unset
            /\ pages' = pages /\ titles' = titles
            /\ thread_user' = thread_user

RECURSIVE in_order(_)
in_order(S) ==
    IF S = {} THEN <<>>
    ELSE LET least == CHOOSE x \in S : \A y \in S : x <= y
         IN  <<least>> \o in_order(S \ {least})

\* the order title_set.values_list("language") is walked in
LanguageOrder == <<"en", "de">>

\* qs of lines 517-521
publish_pages_queryset_no_site(include_unpublished, site) ==
    {p \in Drafts : include_unpublished \/ \E t \in titles : t.page = p /\ t.published}

publish_pages_queryset(include_unpublished, site) ==
    {p \in Drafts :
        /\ include_unpublished \/ \E t \in titles : t.page = p /\ t.published
        /\ site = None \/ pages[p].site = site}

\* the languages of lines 526-530 that pass the test of line 530
publish_pages_languages(page, include_unpublished, language) ==
    {t.language : t \in {u \in titles :
        /\ u.page = page
        /\ include_unpublished \/ u.published
        /\ language = "" \/ u.language = language}}

\* the publish calls of one page, in order; oks[l] is what page.publish(l) returns
RECURSIVE publish_each(_, _, _, _, _, _)
publish_each(pgs, tts, page, langs, order, oks) ==
    IF order = <<>> THEN [pages |-> pgs, titles |-> tts]
    ELSE IF Head(order) \in langs /\ oks[Head(order)]
         THEN publish_each(publish_pages_table(pgs, page, thread_user),
                           publish_titles_table(pgs, tts, page, Head(order)),
                           page, langs, Tail(order), oks)
         ELSE publish_each(pgs, tts, page, langs, Tail(order), oks)

first_language(langs) ==
    IF langs = {} THEN ""
    ELSE LanguageOrder[CHOOSE i \in 1..Len(LanguageOrder) :
            /\ LanguageOrder[i] \in langs
            /\ \A j \in 1..(i - 1) : LanguageOrder[j] \notin langs]

\* no publish_pages generator is being iterated
BulkQuiet == ~bulk.active

\* calling publish_pages and asking for the first pair evaluates the queryset
publish_pages_start(include_unpublished, language, site) ==
    /\ BulkQuiet
    /\ bulk' = [active |-> TRUE, include_unpublished |-> include_unpublished,
                language |-> language, site |-> site,
                queue |-> in_order(publish_pages_queryset(include_unpublished, site)),
                output |-> <<>>, calls |-> {}, output_language |-> ""]
    /\ last' = Outcome("publish_pages", "none", None, 0)
    /\ UNCHANGED <<pages, titles, plugins, tree, permissions, thread_user, reversion,
                   activated, calls>>

\* one turn of the loop of lines 524-537: the pair of the next page
publish_pages_next(oks) ==
    /\ bulk.active /\ bulk.queue # <<>>
    /\ LET page == Head(bulk.queue)
           langs == publish_pages_languages(page, bulk.include_unpublished, bulk.language)
           add == \A l \in langs : oks[l]
           after == publish_each(pages, titles, page, langs, LanguageOrder, oks)
           output_language == IF bulk.output_language = "" THEN first_language(langs)
                              ELSE bulk.output_language
       IN  /\ \A l \in Languages \ langs : oks[l]
           /\ pages' = after.pages
           /\ titles' = after.titles
           /\ activated' = IF output_language = "" THEN activated ELSE output_language
           /\ bulk' = [bulk EXCEPT !.queue = Tail(@),
                                   !.output = Append(@, <<page, add>>),
                                   !.calls = {<<page, l, oks[l]>> : l \in langs},
                                   !.output_language = output_language]
           /\ last' = [Outcome("publish_pages", "none", None, Cardinality(langs))
                          EXCEPT !.output = Append(bulk.output, <<page, add>>)]
    /\ UNCHANGED <<plugins, tree, permissions, thread_user, reversion, calls>>

\* asking for a pair after the last one ends the generator (StopIteration)
publish_pages_stop ==
    /\ bulk.active /\ bulk.queue = <<>>
    /\ bulk' = BulkIdle
    /\ last' = [Outcome("publish_pages", "StopIteration", None, 0)
                   EXCEPT !.output = bulk.output]
    /\ UNCHANGED <<pages, titles, plugins, tree, permissions, thread_user, reversion,
                   activated, calls>>

\* ---------------------------------------------------------- bulk publishing
BulkPageArgs == {[DefaultPageArgs EXCEPT !.site = st] : st \in Sites}

BulkTitleArgs ==
    {[language |-> "de", title |-> <<"A">>, page |-> pg, slug |-> <<>>, parent |-> None,
      with_revision |-> FALSE] : pg \in Drafts}

BulkCreatePage ==
    /\ BulkQuiet
    /\ Cardinality(Drafts) < MaxBulkPages
    /\ \E a \in BulkPageArgs : create_page(a, TRUE) /\ bulk' = bulk

BulkCreateTitle ==
    /\ BulkQuiet
    /\ \E a \in BulkTitleArgs : create_title(a)

BulkStart ==
    \E include_unpublished \in BOOLEAN, language \in {"", "de"}, site \in {None, 2} :
        publish_pages_start(include_unpublished, language, site)

BulkNext == \E oks \in [Languages -> BOOLEAN] : publish_pages_next(oks)

BulkStop == publish_pages_stop

NextBulk == BulkCreatePage \/ BulkCreateTitle \/ BulkStart \/ BulkNext \/ BulkStop

SpecBulk == InitSlug /\ [][NextBulk]_vars

\* C7: publish_pages yields one (page, flag) pair per selected draft (drafts
\* with a published title unless include_unpublished, of the site if one is
\* given) and raises for none; the flag is false exactly when a publish call
\* for a targeted language of that page (each matching title language, or the
\* requested one only) failed, and true otherwise, also with no language
\* targeted.
SelectedDrafts(include_unpublished, site) ==
    {p \in PageIds :
        /\ pages[p].publisher_is_draft
        /\ site # None => pages[p].site = site
        /\ ~include_unpublished => \E t \in titles : t.page = p /\ t.published}

TargetedLanguages(page, include_unpublished, language) ==
    {l \in Languages :
        /\ language # "" => l = language
        /\ \E t \in titles : /\ t.page = page /\ t.language = l
                             /\ (include_unpublished \/ t.published)}

BulkStartStep ==
    (bulk'.active /\ bulk'.output = <<>> /\ bulk' # bulk) =>
        /\ {bulk'.queue[i] : i \in 1..Len(bulk'.queue)}
              = SelectedDrafts(bulk'.include_unpublished, bulk'.site)
        /\ \A i \in 1..Len(bulk'.queue), j \in 1..Len(bulk'.queue) :
              i # j => bulk'.queue[i] # bulk'.queue[j]

BulkNextStep ==
    (bulk'.active /\ Len(bulk'.output) = Len(bulk.output) + 1) =>
        LET page == Head(bulk.queue)
            langs == TargetedLanguages(page, bulk.include_unpublished, bulk.language)
            pair == bulk'.output[Len(bulk'.output)]
        IN  /\ last'.error = "none"
            /\ {c[2] : c \in {d \in bulk'.calls : d[1] = page}} = langs
            /\ pair[1] = page
            /\ pair[2] = ~(\E c \in bulk'.calls : c[1] = page /\ ~c[3])
            /\ langs = {} => pair[2]
            /\ Len(bulk'.queue) = Len(bulk.queue) - 1

\* the pages yielded and the pages still to come are together the selected ones
BulkOnePairPerPage ==
    bulk.active =>
        /\ \A i \in 1..Len(bulk.output), j \in 1..Len(bulk.output) :
              i # j => bulk.output[i][1] # bulk.output[j][1]
        /\ \A i \in 1..Len(bulk.output), j \in 1..Len(bulk.queue) :
              bulk.output[i][1] # bulk.queue[j]

PublishPagesOnePairPerPage ==
    [](BulkOnePairPerPage) /\ [][BulkStartStep /\ BulkNextStep]_vars

\* a finished run over two pages: the first flagged false, the second flagged
\* true with no language targeted
BulkMixedOutcome ==
    /\ bulk.active /\ bulk.queue = <<>> /\ Len(bulk.output) = 2
    /\ ~bulk.output[1][2]
    /\ bulk.output[2][2] /\ bulk.calls = {}

\* ------------------------------------------------------------------ plugins
Placeholders == {1, 2}
PluginTypes == {"TextPlugin", "LinkPlugin"}
PluginIds == 1..Len(plugins)

\* CMSPlugin.node_order_by: the tree library's default, no sorted insertion
node_order_by == FALSE

\* _verify_plugin_type: the model class, or TypeError for an unknown name
verify_plugin_type(plugin_type) ==
    IF plugin_type \in PluginTypes THEN "none" ELSE "TypeError"

\* CMSPlugin.objects.filter(language=, parent=, placeholder=, position__gte=)
plugin_rows(rows, placeholder, language, parent, from) ==
    {k \in 1..Len(rows) :
        /\ rows[k].placeholder = placeholder
        /\ rows[k].language = language
        /\ rows[k].parent_id = parent
        /\ rows[k].position >= from}

\* lines 350-371 and 382-385: [error, new_pos, parent_id, position], position
\* being the name handed on to move()
add_plugin_place(rows, placeholder, language, position, target) ==
    IF target # None
    THEN IF position = "last-child"
         THEN [error |-> "none",
               new_pos |-> Cardinality({k \in 1..Len(rows) : rows[k].parent_id = target}),
               parent_id |-> target,
               position |-> IF node_order_by THEN "sorted-child" ELSE position]
         ELSE IF position = "first-child"
         THEN [error |-> "none", new_pos |-> 0, parent_id |-> target,
               position |-> IF node_order_by THEN "sorted-child" ELSE position]
         ELSE IF position = "left"
         THEN [error |-> "none", new_pos |-> rows[target].position,
               parent_id |-> rows[target].parent_id,
               position |-> IF node_order_by THEN "sorted-sibling" ELSE position]
         ELSE IF position = "right"
         THEN [error |-> "none", new_pos |-> rows[target].position + 1,
               parent_id |-> rows[target].parent_id,
               position |-> IF node_order_by THEN "sorted-sibling" ELSE position]
         ELSE [error |-> "Exception", new_pos |-> 0, parent_id |-> None, position |-> position]
    ELSE IF position = "last-child"
         THEN [error |-> "none",
               new_pos |-> Cardinality(plugin_rows(rows, placeholder, language, None, 0)),
               parent_id |-> None, position |-> position]
         ELSE [error |-> "none", new_pos |-> 0, parent_id |-> None, position |-> position]

\* the rows the loops of lines 378-380 and 386-389 walk
add_plugin_queryset(rows, placeholder, language, place, target) ==
    IF target # None
    THEN IF place.position = "last-child" \/ place.position = "first-child"
         THEN plugin_rows(rows, placeholder, language, target, place.new_pos)
         ELSE plugin_rows(rows, placeholder, language, rows[target].parent_id, place.new_pos)
    ELSE IF place.position = "last-child"
         THEN {}
         ELSE plugin_rows(rows, placeholder, language, None, place.new_pos)

\* pl.position += 1; pl.save() for each row of the queryset
shift_rows_by_two(rows, qs) ==
    [k \in 1..Len(rows) |->
        IF k \in qs THEN [rows[k] EXCEPT !.position = @ + 2] ELSE rows[k]]

shift_rows(rows, qs) ==
    [k \in 1..Len(rows) |->
        IF k \in qs THEN [rows[k] EXCEPT !.position = @ + 1] ELSE rows[k]]

\* --- the tree library: plugin pks in path order
RECURSIVE is_descendant(_, _, _)
is_descendant(rows, k, ancestor) ==
    IF rows[k].parent_id = None THEN FALSE
    ELSE rows[k].parent_id = ancestor \/ is_descendant(rows, rows[k].parent_id, ancestor)

index_of(seq, x) == CHOOSE i \in 1..Len(seq) : seq[i] = x

insert_at(seq, i, x) == SubSeq(seq, 1, i - 1) \o <<x>> \o SubSeq(seq, i, Len(seq))

\* index of the last node of target's subtree
subtree_end(rows, order, target) ==
    LET first == index_of(order, target)
        inside == {i \in first..Len(order) :
                     \A j \in (first + 1)..i : is_descendant(rows, order[j], target)}
    IN  CHOOSE i \in inside : \A j \in inside : j <= i

\* add_root(instance) followed by move(target, pos): where the new pk goes
tree_insert(rows, order, pk, target, position) ==
    IF target = None THEN Append(order, pk)
    ELSE IF position = "first-child"
    THEN insert_at(order, index_of(order, target) + 1, pk)
    ELSE IF position = "left"
    THEN insert_at(order, index_of(order, target), pk)
    ELSE insert_at(order, subtree_end(rows, order, target) + 1, pk)

\* ---------------------------------------------------------------- add_plugin
add_plugin(placeholder, plugin_type, language, position, target) ==
    /\ target \in PluginIds \cup {None}
    /\ LET place == add_plugin_place(plugins, placeholder, language, position, target)
           qs == add_plugin_queryset(plugins, placeholder, language, place, target)
           pk == Len(plugins) + 1
           row == [placeholder |-> placeholder, language |-> language,
                   parent_id |-> place.parent_id, position |-> place.new_pos,
                   plugin_type |-> plugin_type]
       IN  IF verify_plugin_type(plugin_type) # "none"
           THEN /\ last' = Outcome("add_plugin", "TypeError", None, 0)
                /\ UNCHANGED <<plugins, tree>>
           ELSE IF place.error # "none"
           THEN /\ last' = Outcome("add_plugin", place.error, None, 0)
                /\ UNCHANGED <<plugins, tree>>
           ELSE /\ plugins' = Append(shift_rows(plugins, qs), row)
                /\ tree' = tree_insert(plugins, tree, pk, target, place.position)
                /\ last' = [Outcome("add_plugin", "none", pk, 0)
                               EXCEPT !.output = <<position, target>>]
    /\ UNCHANGED <<pages, titles, permissions, thread_user, reversion, activated, calls, bulk>>

\* ------------------------------------------------------------ placing plugins
PlacePlugin ==
    /\ Len(plugins) < MaxPlugins
    /\ \E placeholder \in Placeholders, language \in Languages,
          plugin_type \in {"TextPlugin", "NoSuchPlugin"},
          position \in Positions \cup {"middle"}, target \in PluginIds \cup {None} :
          add_plugin(placeholder, plugin_type, language, position, target)

NextPlugin == PlacePlugin

SpecPlugin == InitSlug /\ [][NextPlugin]_vars

\* placing plugins first or last, at the root of a placeholder or under a
\* root plugin
PlaceRootPlugin ==
    /\ Len(plugins) < MaxRootPlugins
    /\ \E placeholder \in Placeholders, language \in Languages,
          position \in {"first-child", "last-child"},
          target \in {k \in PluginIds : plugins[k].parent_id = None} \cup {None} :
          add_plugin(placeholder, "TextPlugin", language, position, target)

NextFirstChild == PlaceRootPlugin

SpecFirstChild == InitSlug /\ [][NextFirstChild]_vars

\* the positions held by the plugins of a placeholder, language and parent
SiblingPlugins(placeholder, language, parent) ==
    {k \in PluginIds : /\ plugins[k].placeholder = placeholder
                       /\ plugins[k].language = language
                       /\ plugins[k].parent_id = parent}

ContiguousFromZero(S) ==
    /\ \A k \in S : plugins[k].position \in 0..(Cardinality(S) - 1)
    /\ \A k \in S, m \in S : k # m => plugins[k].position # plugins[m].position

\* C2: add_plugin with no target and position first-child, on a placeholder
\* whose N root plugins of that language sit at 0..N-1, puts the new plugin at
\* 0 and each of the N at its old position + 1; plugins of other languages or
\* placeholders keep their positions.
FirstChildStep ==
    \A placeholder \in Placeholders, language \in Languages :
        (/\ add_plugin(placeholder, "TextPlugin", language, "first-child", None)
         /\ ContiguousFromZero(SiblingPlugins(placeholder, language, None))) =>
            /\ Len(plugins') = Len(plugins) + 1
            /\ plugins'[Len(plugins')].position = 0
            /\ plugins'[Len(plugins')].parent_id = None
            /\ plugins'[Len(plugins')].placeholder = placeholder
            /\ plugins'[Len(plugins')].language = language
            /\ \A k \in PluginIds :
                  IF k \in SiblingPlugins(placeholder, language, None)
                  THEN plugins'[k].position = plugins[k].position + 1
                  ELSE (plugins[k].placeholder # placeholder \/ plugins[k].language # language)
                       => plugins'[k].position = plugins[k].position

FirstChildShiftsRootPlugins == [][FirstChildStep]_vars

\* the last call put a plugin first in front of two root plugins, beside a
\* plugin of the other language
FirstChildBeforeTwo ==
    /\ last.op = "add_plugin" /\ last.error = "none"
    /\ last.output = <<"first-child", None>>
    /\ \E k \in PluginIds, m \in PluginIds, o \in PluginIds :
          /\ plugins[k].position = 1 /\ plugins[m].position = 2
          /\ {k, m} \subseteq SiblingPlugins(plugins[last.page].placeholder,
                                             plugins[last.page].language, None)
          /\ plugins[o].language # plugins[last.page].language
          /\ plugins[o].placeholder = plugins[last.page].placeholder

\* C9: after any sequence of add_plugin calls that do not overlap, the plugins
\* sharing a placeholder, language and parent hold exactly the positions
\* 0..k-1, with no gap and no duplicate.
PluginPositionsContiguous ==
    \A placeholder \in Placeholders, language \in Languages, parent \in PluginIds \cup {None} :
        ContiguousFromZero(SiblingPlugins(placeholder, language, parent))

\* ------------------------------------------------- copy_plugins_to_language
\* Page.get_placeholders(): two regions on the first page, one on the second
get_placeholders(page) ==
    IF page = 1 THEN <<1, 2>> ELSE IF page = 2 THEN <<3>> ELSE <<>>

AllPlaceholders == {1, 2, 3}

\* placeholder.cmsplugin_set.filter(language=).order_by('path')
plugins_by_path(rows, order, placeholder, language) ==
    SelectSeq(order, LAMBDA k : rows[k].placeholder = placeholder /\ rows[k].language = language)

\* copy_plugins_to: one copy per plugin, in the order given, each under the
\* copy of its parent; cache maps an old pk to its copy (0: not copied)
RECURSIVE copy_plugins_to(_, _, _, _, _, _)
copy_plugins_to(rows, order, old_plugins, placeholder, language, cache) ==
    IF old_plugins = <<>> THEN [rows |-> rows, order |-> order, copied |-> 0]
    ELSE LET old == Head(old_plugins)
             pk == Len(rows) + 1
             parent == IF rows[old].parent_id = None THEN None ELSE cache[rows[old].parent_id]
             row == [rows[old] EXCEPT !.placeholder = placeholder,
                                      !.language = language,
                                      !.parent_id = parent]
             rows2 == Append(rows, row)
             order2 == IF parent = None THEN Append(order, pk)
                       ELSE insert_at(order, subtree_end(rows, order, parent) + 1, pk)
             rest == copy_plugins_to(rows2, order2, Tail(old_plugins), placeholder, language,
                                     [cache EXCEPT ![old] = pk])
         IN  [rest EXCEPT !.copied = @ + 1]

RECURSIVE copy_placeholders_always(_, _, _, _, _, _)
copy_placeholders_always(rows, order, placeholders, source_language, target_language, only_empty) ==
    IF placeholders = <<>> THEN [rows |-> rows, order |-> order, copied |-> 0]
    ELSE LET placeholder == Head(placeholders)
             done == copy_plugins_to(rows, order,
                         plugins_by_path(rows, order, placeholder, source_language),
                         placeholder, target_language, [k \in 1..Len(rows) |-> None])
             rest == copy_placeholders_always(done.rows, done.order, Tail(placeholders),
                                              source_language, target_language, only_empty)
         IN  [rest EXCEPT !.copied = @ + done.copied]

\* lines 582-589: the loop over the page's placeholders
RECURSIVE copy_placeholders(_, _, _, _, _, _)
copy_placeholders(rows, order, placeholders, source_language, target_language, only_empty) ==
    IF placeholders = <<>> THEN [rows |-> rows, order |-> order, copied |-> 0]
    ELSE LET placeholder == Head(placeholders)
             populated == \E k \in 1..Len(rows) : /\ rows[k].placeholder = placeholder
                                                  /\ rows[k].language = target_language
             done == IF ~only_empty \/ ~populated
                     THEN copy_plugins_to(rows, order,
                              plugins_by_path(rows, order, placeholder, source_language),
                              placeholder, target_language,
                              [k \in 1..Len(rows) |-> None])
                     ELSE [rows |-> rows, order |-> order, copied |-> 0]
             rest == copy_placeholders(done.rows, done.order, Tail(placeholders),
                                       source_language, target_language, only_empty)
         IN  [rest EXCEPT !.copied = @ + done.copied]

copy_plugins_to_language(page, source_language, target_language, only_empty) ==
    LET done == copy_placeholders(plugins, tree, get_placeholders(page),
                                  source_language, target_language, only_empty)
    IN  /\ plugins' = done.rows
        /\ tree' = done.order
        /\ last' = [Outcome("copy_plugins_to_language", "none", page, 0)
                       EXCEPT !.copied = done.copied,
                              !.output = <<source_language, target_language, only_empty>>]
        /\ UNCHANGED <<pages, titles, permissions, thread_user, reversion, activated, calls, bulk>>

\* ------------------------------------------------------- copying languages
CopyCreatePage ==
    /\ Cardinality(Drafts) < MaxCopyPages
    /\ create_page(DefaultPageArgs, TRUE)

\* plugins are placed in the placeholders of the pages there are, each in the
\* placeholder and language of its target
CopyPlacePlugin ==
    /\ Len(plugins) < MaxCopyPlugins
    /\ \E page \in Drafts, language \in Languages,
          position \in {"first-child", "last-child"}, target \in PluginIds \cup {None} :
          \E i \in 1..Len(get_placeholders(page)) :
              /\ target # None => /\ plugins[target].placeholder = get_placeholders(page)[i]
                                  /\ plugins[target].language = language
              /\ add_plugin(get_placeholders(page)[i], "TextPlugin", language, position, target)

CopyPlugins ==
    \E page \in Drafts, source_language \in Languages,
       target_language \in Languages, only_empty \in BOOLEAN :
        /\ source_language # target_language
        /\ copy_plugins_to_language(page, source_language, target_language, only_empty)
        /\ Len(plugins') <= MaxCopyRows

NextCopy == CopyCreatePage \/ CopyPlacePlugin \/ CopyPlugins

SpecCopy == InitSlug /\ [][NextCopy]_vars

\* the plugins a step added to a placeholder, oldest first
AddedTo(placeholder) ==
    SelectSeq([i \in 1..(Len(plugins') - Len(plugins)) |-> Len(plugins) + i],
              LAMBDA k : plugins'[k].placeholder = placeholder)

\* the copies a placeholder received are those of the plugins in sources, in
\* that order, each in the target language, at its source's position and
\* under the copy of its source's parent
ReceivedCopies(placeholder, sources, target_language) ==
    LET added == AddedTo(placeholder)
    IN  /\ Len(added) = Len(sources)
        /\ \A i \in 1..Len(sources) :
              /\ plugins'[added[i]].language = target_language
              /\ plugins'[added[i]].position = plugins[sources[i]].position
              /\ plugins'[added[i]].plugin_type = plugins[sources[i]].plugin_type
              /\ IF plugins[sources[i]].parent_id = None
                 THEN plugins'[added[i]].parent_id = None
                 ELSE \E j \in 1..Len(sources) :
                         /\ sources[j] = plugins[sources[i]].parent_id
                         /\ plugins'[added[i]].parent_id = added[j]
        /\ SelectSeq(tree', LAMBDA k : \E i \in 1..Len(added) : added[i] = k) = added

\* C6: copy_plugins_to_language decides per placeholder of the page: with
\* only_empty a placeholder that already holds a plugin of the target language
\* receives no copy, any other placeholder of the page receives a copy of each
\* of its source-language plugins in path order; the number returned is the
\* number of plugins copied, and the plugins that existed are left as they were.
CopyStep ==
    last'.op = "copy_plugins_to_language" =>
        LET page == last'.page
            source_language == last'.output[1]
            target_language == last'.output[2]
            only_empty == last'.output[3]
        IN  /\ \A placeholder \in AllPlaceholders :
                  LET of_page == \E i \in 1..Len(get_placeholders(page)) :
                                    get_placeholders(page)[i] = placeholder
                      populated == \E k \in PluginIds : /\ plugins[k].placeholder = placeholder
                                                        /\ plugins[k].language = target_language
                  IN  IF of_page /\ ~(only_empty /\ populated)
                      THEN ReceivedCopies(placeholder,
                               plugins_by_path(plugins, tree, placeholder, source_language),
                               target_language)
                      ELSE AddedTo(placeholder) = <<>>
            /\ last'.copied = Len(plugins') - Len(plugins)
            /\ \A k \in PluginIds : plugins'[k] = plugins[k]

CopyDecidesPerPlaceholder == [][CopyStep]_vars

\* the last call copied with only_empty from a page with one placeholder that
\* held both languages, which got nothing, and another that held the source
\* language only, which got its copies
CopySkippedOneFilledOne ==
    /\ last.op = "copy_plugins_to_language"
    /\ last.page = 1
    /\ last.output = <<"en", "de", TRUE>>
    /\ last.copied >= 1
    /\ \E skipped \in {1, 2}, filled \in {1, 2} :
          /\ \E k \in PluginIds, m \in PluginIds :
                /\ plugins[k].placeholder = skipped /\ plugins[k].language = "en"
                /\ plugins[m].placeholder = skipped /\ plugins[m].language = "de"
          /\ \A k \in PluginIds :
                k > Len(plugins) - last.copied => plugins[k].placeholder = filled
          /\ skipped # filled

\* ------------------------------------------- add_plugin, one query at a time
Procs == {1, 2}

IdleCall ==
    [pc |-> "idle", placeholder |-> 0, language |-> "", position |-> "", target |-> None,
     new_pos |-> 0, parent_id |-> None, queue |-> <<>>, pk |-> None]

NoCalls == [proc |-> [p \in Procs |-> IdleCall], overlapped |-> FALSE, started |-> 0]

\* a set of pks as the sequence a queryset yields them in
RECURSIVE by_pk(_)
by_pk(S) ==
    IF S = {} THEN <<>>
    ELSE LET k == CHOOSE x \in S : \A y \in S : x <= y
         IN  <<k>> \o by_pk(S \ {k})

\* lines 349-371, 382-385: the call's arguments are taken and new_pos is read
add_plugin_begin(p, placeholder, language, position, target) ==
    LET place == add_plugin_place(plugins, placeholder, language, position, target)
    IN  /\ calls.proc[p].pc = "idle"
        /\ place.error = "none"
        /\ calls' = [calls EXCEPT
              !.proc[p] = [pc |-> IF target = None /\ position = "last-child"
                                  THEN "insert" ELSE "select",
                           placeholder |-> placeholder, language |-> language,
                           position |-> place.position, target |-> target,
                           new_pos |-> place.new_pos, parent_id |-> place.parent_id,
                           queue |-> <<>>, pk |-> None],
              !.overlapped = @ \/ \E q \in Procs : q # p /\ calls.proc[q].pc # "idle",
              !.started = @ + 1]
        /\ UNCHANGED <<pages, titles, plugins, tree, permissions, thread_user, reversion,
                       activated, last, bulk>>

\* lines 372-378, 386-387: the queryset is evaluated, each row with the
\* position it holds at that moment
add_plugin_select(p) ==
    LET c == calls.proc[p]
        place == [error |-> "none", new_pos |-> c.new_pos, parent_id |-> c.parent_id,
                  position |-> c.position]
        qs == by_pk(add_plugin_queryset(plugins, c.placeholder, c.language, place, c.target))
        queue == [i \in 1..Len(qs) |-> <<qs[i], plugins[qs[i]].position>>]
    IN  /\ c.pc = "select"
        /\ calls' = [calls EXCEPT !.proc[p].queue = queue,
                                  !.proc[p].pc = IF queue = <<>> THEN "insert" ELSE "shift"]
        /\ UNCHANGED <<pages, titles, plugins, tree, permissions, thread_user, reversion,
                       activated, last, bulk>>

\* lines 379-380, 388-389: pl.position += 1; pl.save() on the next row read
add_plugin_shift(p) ==
    LET c == calls.proc[p]
        pl == Head(c.queue)
    IN  /\ c.pc = "shift"
        /\ plugins' = [plugins EXCEPT ![pl[1]].position = pl[2] + 1]
        /\ calls' = [calls EXCEPT !.proc[p].queue = Tail(c.queue),
                                  !.proc[p].pc = IF Tail(c.queue) = <<>> THEN "insert" ELSE "shift"]
        /\ UNCHANGED <<pages, titles, tree, permissions, thread_user, reversion,
                       activated, last, bulk>>

\* lines 391-402: the row is inserted with new_pos and moved next to the target
add_plugin_insert(p) ==
    LET c == calls.proc[p]
        pk == Len(plugins) + 1
        row == [placeholder |-> c.placeholder, language |-> c.language,
                parent_id |-> c.parent_id, position |-> c.new_pos,
                plugin_type |-> "TextPlugin"]
    IN  /\ c.pc = "insert"
        /\ plugins' = Append(plugins, row)
        /\ tree' = tree_insert(plugins, tree, pk, c.target, c.position)
        /\ calls' = [calls EXCEPT !.proc[p].pk = pk, !.proc[p].pc = "save"]
        /\ UNCHANGED <<pages, titles, permissions, thread_user, reversion,
                       activated, last, bulk>>

\* lines 403-406: plugin.save() writes the row again, with the position the
\* call holds
add_plugin_save(p) ==
    LET c == calls.proc[p]
    IN  /\ c.pc = "save"
        /\ plugins' = [plugins EXCEPT ![c.pk].position = c.new_pos]
        /\ calls' = [calls EXCEPT !.proc[p] = IdleCall]
        /\ last' = [Outcome("add_plugin", "none", c.pk, 0)
                       EXCEPT !.output = <<c.position, c.target>>]
        /\ UNCHANGED <<pages, titles, tree, permissions, thread_user, reversion,
                       activated, bulk>>

\* ----------------------------------------------------- two callers at once
RaceBegin ==
    /\ calls.started < MaxRaceCalls
    /\ \E p \in Procs, placeholder \in {1}, language \in Languages,
          position \in Positions, target \in PluginIds \cup {None} :
          add_plugin_begin(p, placeholder, language, position, target)

RaceSelect == \E p \in Procs : add_plugin_select(p)

RaceShift == \E p \in Procs : add_plugin_shift(p)

RaceInsert == \E p \in Procs : add_plugin_insert(p)

RaceSave == \E p \in Procs : add_plugin_save(p)

InitRace ==
    /\ pages = <<>>
    /\ titles = {}
    /\ plugins = <<>>
    /\ tree = <<>>
    /\ permissions = {}
    /\ thread_user = Unset
    /\ activated = ""
    /\ reversion = FALSE
    /\ last = Outcome("init", "none", None, 0)
    /\ calls = NoCalls
    /\ bulk = BulkIdle

NextRace == RaceBegin \/ RaceSelect \/ RaceShift \/ RaceInsert \/ RaceSave

SpecRace == InitRace /\ [][NextRace]_vars

RaceQuiet == \A p \in Procs : calls.proc[p].pc = "idle"

\* two callers placed a plugin each at the root of the same placeholder and
\* language with no target, their steps interleaved, and the two plugins hold
\* the same position
RaceCorruptsOrder ==
    /\ RaceQuiet
    /\ calls.overlapped
    /\ calls.started = 2
    /\ Len(plugins) = 2
    /\ plugins[1].parent_id = None /\ plugins[2].parent_id = None
    /\ plugins[1].language = plugins[2].language
    /\ plugins[1].position = plugins[2].position

\* C10: two add_plugin calls into the same placeholder, language and parent
\* that run one after the other never leave two siblings at the same position
\* or the positions with a gap.
SequentialCallsKeepOrder ==
    (RaceQuiet /\ ~calls.overlapped) =>
        \A placeholder \in Placeholders, language \in Languages, parent \in PluginIds \cup {None} :
            Cardinality(SiblingPlugins(placeholder, language, parent)) >= 2 =>
                ContiguousFromZero(SiblingPlugins(placeholder, language, parent))

\* -------------------------------------------------- the current acting user
\* create_page on behalf of a user or of the default name, with and without a
\* reverse id, published or not
ActingPageArgs ==
    {[DefaultPageArgs EXCEPT !.created_by = cb, !.reverse_id = r, !.published = pb] :
        cb \in {"python-api", "alice"}, r \in ReverseIds, pb \in BOOLEAN}

ActingCreatePage ==
    /\ Cardinality(Drafts) < MaxActingPages
    /\ \E a \in ActingPageArgs, ok \in BOOLEAN : create_page(a, ok)

ActingAssignUser ==
    /\ Cardinality(permissions) < MaxGrants
    /\ \E page \in Drafts, user \in Users :
          assign_user_to_page(page, user, TRUE, FALSE)

ActingPublishPage ==
    \E page \in Drafts, user \in Users, ok \in BOOLEAN :
        publish_page(page, user, "en", ok)

NextActing == ActingCreatePage \/ ActingAssignUser \/ ActingPublishPage

SpecActing == InitSlug /\ [][NextActing]_vars

\* C11: whenever a create_page or publish_page call has ended, by returning
\* or by raising, _thread_locals.user holds no user: the user of a finished
\* call is not there for a later call to see.
ActingUserCleared == thread_user \notin Users

\* create_page has returned for a user, and publish_page for a user, and each
\* left no user behind
ActingUserClearedOnReturn ==
    /\ last.op = "publish_page" /\ last.error = "none" /\ last.actor \in Users
    /\ thread_user \notin Users
    /\ \E p \in Drafts : pages[p].created_by \in Users

\* ----------------------------------------------------- calls that must fail
\* create_page as by default, with or without a reverse id and a revision
FailFastBaseArgs ==
    {[DefaultPageArgs EXCEPT !.with_revision = w, !.reverse_id = r] :
        w \in BOOLEAN, r \in ReverseIds}

\* the default call with one argument changed, to a good or to a bad value
FailFastPageArgs ==
    FailFastBaseArgs \cup
    UNION {   {[b EXCEPT !.template = t] :
                  t \in {TEMPLATE_INHERITANCE_MAGIC, "page.html", "gone.html", "nope.html"}}
        \cup {[b EXCEPT !.site = st, !.language = l] :
                  st \in Sites \cup {NotASite}, l \in Languages \cup {"fr"}}
        \cup {[b EXCEPT !.parent = pa, !.slug = sl] :
                  pa \in {p \in PageIds : p = 1} \cup {NotAPage}, sl \in ExplicitSlugs}
        \cup {[b EXCEPT !.publication_date = d] : d \in {"date", "text"}}
        \cup {[b EXCEPT !.publication_end_date = d] : d \in {"date", "text"}}
        \cup {[b EXCEPT !.navigation_extenders = n] : n \in {"CMSMenu", "NoMenu"}}
        \cup {[b EXCEPT !.limit_visibility_in_menu = v] : v \in {"users", "staff"}}
        \cup {[b EXCEPT !.position = pos] : pos \in {"first-child", "middle"}}
        \cup {[b EXCEPT !.apphook = h, !.apphook_namespace = ns] :
                  h \in {[form |-> "string", app |-> "SampleApp"],
                         [form |-> "string", app |-> "GhostApp"],
                         [form |-> "other", app |-> ""]},
                  ns \in {"", "ns"}}
        : b \in {DefaultPageArgs}}

FailFastTitleArgs ==
    {[language |-> l, title |-> <<"A">>, page |-> pg, slug |-> <<>>, parent |-> None,
      with_revision |-> w] :
        l \in Languages \cup {"fr"}, pg \in PageIds, w \in BOOLEAN}

\* calls that fail are made on a full store too
FailFastCreatePage ==
    \E a \in FailFastPageArgs :
        /\ create_page(a, TRUE)
        /\ Len(pages') <= MaxFailFastPages

FailFastCreateTitle == \E a \in FailFastTitleArgs : create_title(a)

\* the reversion app is installed or it is not
InitFailFast == InitStore /\ reversion \in BOOLEAN

NextFailFast == FailFastCreatePage \/ FailFastCreateTitle

SpecFailFast == InitFailFast /\ [][NextFailFast]_vars

\* what the arguments of a create_page call have wrong, told from the
\* arguments and the store
BadPageArgs(a) ==
    \/ a.with_revision /\ ~reversion
    \/ a.template \notin {TEMPLATE_INHERITANCE_MAGIC, "page.html"}
    \/ a.site = NotASite
    \/ a.site = None /\ a.language \notin {"en", "de"}
    \/ a.site = 1 /\ a.language \notin {"en", "de"}
    \/ a.site = 2 /\ a.language # "en"
    \/ a.parent = NotAPage
    \/ a.publication_date = "text"
    \/ a.publication_end_date = "text"
    \/ a.navigation_extenders = "NoMenu"
    \/ a.limit_visibility_in_menu = "staff"
    \/ a.position = "middle"
    \/ a.apphook # NoApphook /\ (a.apphook.form = "other" \/ a.apphook.app = "GhostApp")
    \/ a.apphook # NoApphook /\ a.apphook.app = "SampleApp" /\ a.apphook_namespace = ""
    \/ /\ a.reverse_id # ""
       /\ \E p \in Drafts : /\ pages[p].reverse_id = a.reverse_id
                            /\ pages[p].site = IF a.site = None THEN CurrentSite ELSE a.site

\* C12: every error create_page raises from the validation of its arguments,
\* from a reverse id in use or from a revision asked for without reversion is
\* raised before the page is created, so the failed call leaves no new page
\* and no new title (a call with nothing wrong creates both); create_title
\* asked for a revision without reversion raises ImproperlyConfigured and
\* creates no title.
FailFastStep ==
    /\ \A a \in FailFastPageArgs :
          create_page(a, TRUE) =>
              IF BadPageArgs(a)
              THEN /\ last'.error # "none"
                   /\ pages' = pages /\ titles' = titles
                   /\ (a.with_revision /\ ~reversion) => last'.error = "ImproperlyConfigured"
              ELSE /\ last'.error = "none"
                   /\ Len(pages') = Len(pages) + 1
                   /\ Cardinality(titles') = Cardinality(titles) + 1
    /\ \A a \in FailFastTitleArgs :
          (create_title(a) /\ a.with_revision /\ ~reversion) =>
              /\ titles' = titles
              /\ pages' = pages
              /\ last'.error # "none"
              /\ a.language \in get_language_list(pages[a.page].site)
                    => last'.error = "ImproperlyConfigured"

ErrorsPrecedeCreation == [][FailFastStep]_vars

\* create_page was just refused for its reverse id, with the one page and the
\* one title of an earlier call in the store
RefusedBesideOnePage ==
    /\ last.op = "create_page" /\ last.error = "FieldError"
    /\ Len(pages) = 1 /\ Cardinality(titles) = 1
    /\ ~reversion

====
